---- MODULE Spec2Model ----
(***************************************************************************)
(* Model of the lsst.sphinxutils cross-reference extension:                *)
(*   ext/utils.py                 RoleContent.parse                        *)
(*   ext/lssttasks/_crossrefs.py  identifier formatting, reference roles   *)
(*                                and the three doctree-resolved handlers   *)
(*   ext/lssttasks/_topics.py     the topic directives                      *)
(*   ext/lssttasks/_utils.py      docstring summary helpers                 *)
(*                                                                         *)
(* A Python str is a sequence of one-character strings.                     *)
(***************************************************************************)
EXTENDS Integers, Sequences, FiniteSets, TLC

VARIABLES
    raw,        \* parser harness: the role's rawsource handed to RoleContent.parse
    parsed,     \* parser harness: the RoleContent returned (done = FALSE before the call)
    names,      \* formatter harness: kind and the two fully-qualified names
    ids,        \* formatter harness: the two identifiers (done = FALSE before the calls)
    env,        \* the Sphinx build environment (app.builder.env / self.env)
    doctree,    \* doctree of every document: a sequence of nodes
    source,     \* the markup processed so far in every document, in order
    readlog,    \* the documents whose reading has started, in reading order
    resolved,   \* the documents for which doctree-resolved has been emitted
    warnings,   \* what the handlers passed to logger.warning, in order
    raised,     \* the exceptions that left a directive, in order
    workers     \* parallel read: the reading processes and their copy of env

parseVars == <<raw, parsed>>

idVars == <<names, ids>>

buildVars == <<env, doctree, source, readlog, resolved, warnings, raised, workers>>

vars == <<raw, parsed, names, ids,
          env, doctree, source, readlog, resolved, warnings, raised, workers>>

-----------------------------------------------------------------------------
(* Each harness leaves the variables of the others at these values *)

NotParsed ==
    [done |-> FALSE, last_component |-> FALSE, has_display |-> FALSE,
     display |-> <<>>, ref |-> <<>>]

ParseIdle ==
    /\ raw = <<>>
    /\ parsed = NotParsed

IdsIdle ==
    /\ names = [kind |-> "task", a |-> <<>>, b |-> <<>>]
    /\ ids = [done |-> FALSE, a |-> <<>>, b |-> <<>>]

\* the documents of the build
Docs == {"d1", "d2"}

\* env.docname outside the reading of a document
NoDoc == ""

\* a fresh environment: neither registry attribute exists
NewEnv ==
    [docname           |-> NoDoc,
     has_task_topics   |-> FALSE,
     lsst_task_topics  |-> <<>>,
     has_configfields  |-> FALSE,
     lsst_configfields |-> <<>>]

\* the processes that read the documents of a parallel build
Workers == {"w1", "w2"}

\* a reading process that was not started
NotForked == [state |-> "none", docname |-> NoDoc, env |-> NewEnv]

\* a serial build starts no reading process
SerialRead == workers = [w \in Workers |-> NotForked]

BuildIdle ==
    /\ SerialRead
    /\ env = NewEnv
    /\ doctree = [d \in Docs |-> <<>>]
    /\ source = [d \in Docs |-> <<>>]
    /\ readlog = <<>>
    /\ resolved = {}
    /\ warnings = <<>>
    /\ raised = <<>>

-----------------------------------------------------------------------------
(* Bounds *)

\* longest rawsource enumerated for RoleContent.parse
MaxRawLen == 5

\* longest fully-qualified name enumerated for the identifier formatters
MaxNameLen == 4

\* topic directives processed in one build
MaxTopics == 2

\* reference roles processed in one build
MaxRoles == 1

\* placeholders in the document tree handed to the handlers
MaxNodes == 2

-----------------------------------------------------------------------------
(* Python str primitives *)

\* characters str.strip() removes that occur in the model's alphabet
Whitespace == {" ", "\n"}

RECURSIVE LStripChars(_, _)
\* str.lstrip(chars)
LStripChars(s, chars) ==
    IF s # <<>> /\ Head(s) \in chars THEN LStripChars(Tail(s), chars) ELSE s

RECURSIVE RStripChars(_, _)
\* str.rstrip(chars)
RStripChars(s, chars) ==
    IF s # <<>> /\ s[Len(s)] \in chars
    THEN RStripChars(SubSeq(s, 1, Len(s) - 1), chars)
    ELSE s

\* str.strip()
Strip(s) == RStripChars(LStripChars(s, Whitespace), Whitespace)

\* str.startswith(c) for a one-character c
StartsWith(s, c) == s # <<>> /\ Head(s) = c

-----------------------------------------------------------------------------
(* ext/utils.py *)

\* "." in a Python regular expression without re.DOTALL
RegexDot(c) == c # "\n"

\* the pattern written with "(?P<reference>.*)": an empty reference matches
PatternCandidates_EmptyReference(s) ==
    { ij \in (1..Len(s)) \X (1..Len(s)) :
        /\ ij[1] >= 2
        /\ ij[2] >= ij[1] + 1
        /\ s[ij[1]] = "<"
        /\ s[ij[2]] = ">"
        /\ \A k \in 1..(ij[1] - 1) : RegexDot(s[k])
        /\ \A k \in (ij[1] + 1)..(ij[2] - 1) : RegexDot(s[k]) }

\* ROLE_DISPLAY_PATTERN = re.compile(r"(?P<display>.+)<(?P<reference>.+)>")
\* used through .match(): anchored at the start only.  A candidate is the
\* position i of the "<" and j of the ">" with display = s[1..i-1] and
\* reference = s[i+1..j-1], both non-empty and free of newlines.
PatternCandidates(s) ==
    { ij \in (1..Len(s)) \X (1..Len(s)) :
        /\ ij[1] >= 2
        /\ ij[2] >= ij[1] + 2
        /\ s[ij[1]] = "<"
        /\ s[ij[2]] = ">"
        /\ \A k \in 1..(ij[1] - 1) : RegexDot(s[k])
        /\ \A k \in (ij[1] + 1)..(ij[2] - 1) : RegexDot(s[k]) }

\* Both groups are greedy: the display group is as long as possible, and
\* for that display the reference group is as long as possible.
ROLE_DISPLAY_PATTERN(s) ==
    LET cands == PatternCandidates(s) IN
    IF cands = {} THEN [matched |-> FALSE, display |-> <<>>, reference |-> <<>>]
    ELSE LET i == CHOOSE x \in {c[1] : c \in cands} :
                      \A y \in {c[1] : c \in cands} : y <= x
             j == CHOOSE x \in {c[2] : c \in {d \in cands : d[1] = i}} :
                      \A y \in {c[2] : c \in {d \in cands : d[1] = i}} : y <= x
         IN [matched   |-> TRUE,
             display   |-> SubSeq(s, 1, i - 1),
             reference |-> SubSeq(s, i + 1, j - 1)]

\* parse without the strip() of the text that has no display
RoleContentParse_NoStrip(role_rawsource) ==
    LET last_component == StartsWith(role_rawsource, "~")
        stripped == IF last_component
                    THEN LStripChars(role_rawsource, {"~"})
                    ELSE role_rawsource
        match == ROLE_DISPLAY_PATTERN(stripped)
    IN IF match.matched
       THEN [last_component |-> last_component,
             has_display    |-> TRUE,
             display        |-> Strip(match.display),
             ref            |-> Strip(match.reference)]
       ELSE [last_component |-> last_component,
             has_display    |-> FALSE,
             display        |-> <<>>,
             ref            |-> stripped]

\* RoleContent.parse; display = None is has_display = FALSE
RoleContentParse(role_rawsource) ==
    LET last_component == StartsWith(role_rawsource, "~")
        stripped == IF last_component
                    THEN LStripChars(role_rawsource, {"~"})
                    ELSE role_rawsource
        match == ROLE_DISPLAY_PATTERN(stripped)
    IN IF match.matched
       THEN [last_component |-> last_component,
             has_display    |-> TRUE,
             display        |-> Strip(match.display),
             ref            |-> Strip(match.reference)]
       ELSE [last_component |-> last_component,
             has_display    |-> FALSE,
             display        |-> <<>>,
             ref            |-> Strip(stripped)]

-----------------------------------------------------------------------------
(* docutils.nodes.make_id, the safe-id transform used by the formatters *)

UpperCase ==
    <<"A", "B", "C", "D", "E", "F", "G", "H", "I", "J", "K", "L", "M",
      "N", "O", "P", "Q", "R", "S", "T", "U", "V", "W", "X", "Y", "Z">>

LowerCase ==
    <<"a", "b", "c", "d", "e", "f", "g", "h", "i", "j", "k", "l", "m",
      "n", "o", "p", "q", "r", "s", "t", "u", "v", "w", "x", "y", "z">>

Digits == {"0", "1", "2", "3", "4", "5", "6", "7", "8", "9"}

\* str.lower() on one character
LowerChar(c) ==
    IF \E k \in 1..26 : UpperCase[k] = c
    THEN LowerCase[CHOOSE k \in 1..26 : UpperCase[k] = c]
    ELSE c

\* str.lower()
Lower(s) == [k \in 1..Len(s) |-> LowerChar(s[k])]

\* the characters make_id keeps: [a-z0-9]
IsIdChar(c) == c \in Digits \/ \E k \in 1..26 : LowerCase[k] = c

RECURSIVE HyphenateRuns(_)
\* _non_id_chars.sub("-", s): every run of characters outside [a-z0-9]
\* becomes one hyphen
HyphenateRuns(s) ==
    IF s = <<>> THEN <<>>
    ELSE IF IsIdChar(Head(s)) THEN <<Head(s)>> \o HyphenateRuns(Tail(s))
    ELSE LET rest == HyphenateRuns(Tail(s))
         IN IF rest # <<>> /\ Head(rest) = "-" /\ ~IsIdChar(Head(Tail(s)))
            THEN rest
            ELSE <<"-">> \o rest

\* _non_id_at_ends.sub("", s): drop leading hyphens and digits and trailing
\* hyphens
TrimIdEnds(s) == RStripChars(LStripChars(s, Digits \cup {"-"}), {"-"})

\* make_id(string)
make_id(string) == TrimIdEnds(HyphenateRuns(Lower(string)))

-----------------------------------------------------------------------------
(* ext/lssttasks/_crossrefs.py: identifier formatting *)

TaskPrefix == <<"l", "s", "s", "t", "-", "t", "a", "s", "k", "-">>

ConfigPrefix == <<"l", "s", "s", "t", "-", "c", "o", "n", "f", "i", "g", "-">>

ConfigFieldPrefix ==
    <<"l", "s", "s", "t", "-", "c", "o", "n", "f", "i", "g",
      "f", "i", "e", "l", "d", "-">>

\* format_task_id: make_id(f"lsst-task-{task_class_name}")
format_task_id(task_class_name) == make_id(TaskPrefix \o task_class_name)

\* the config identifier built with the prefix of the task identifiers
format_config_id_TaskPrefix(config_class_name) == make_id(TaskPrefix \o config_class_name)

\* format_config_id: make_id(f"lsst-config-{config_class_name}")
format_config_id(config_class_name) == make_id(ConfigPrefix \o config_class_name)

\* format_configfield_id:
\* make_id(f"lsst-configfield-{config_class_name}-{field_name}")
format_configfield_id(config_class_name, field_name) ==
    make_id(ConfigFieldPrefix \o config_class_name \o <<"-">> \o field_name)

\* position of the last "." of s, 0 when there is none
LastDot(s) ==
    IF \E k \in 1..Len(s) : s[k] = "."
    THEN CHOOSE k \in 1..Len(s) :
            s[k] = "." /\ \A m \in (k + 1)..Len(s) : s[m] # "."
    ELSE 0

\* ref.split(".")[-1]
LastComponent(s) == SubSeq(s, LastDot(s) + 1, Len(s))

\* ".".join(ref.split(".")[:-1])
ClassNamespace(s) == SubSeq(s, 1, LastDot(s) - 1)

\* the identifier process_pending_configfield_xref_nodes computes for a ref
ConfigFieldIdOfRef(ref) ==
    format_configfield_id(ClassNamespace(ref), LastComponent(ref))

-----------------------------------------------------------------------------
(* Formatter harness: the identifiers of two fully-qualified names *)

NameAlphabet == {"a", "A", "_", "."}

\* dotted Python names: at least two components, none of them empty
IsQualifiedName(s) ==
    /\ Len(s) >= 3
    /\ s[1] # "."
    /\ s[Len(s)] # "."
    /\ \E k \in 1..Len(s) : s[k] = "."
    /\ \A k \in 1..(Len(s) - 1) : ~(s[k] = "." /\ s[k + 1] = ".")

QualifiedNames ==
    { s \in UNION { [1..n -> NameAlphabet] : n \in 3..MaxNameLen } :
        IsQualifiedName(s) }

IdKinds == {"task", "config", "configfield"}

FormatId(kind, name) ==
    CASE kind = "task" -> format_task_id(name)
      [] kind = "config" -> format_config_id(name)
      [] kind = "configfield" -> ConfigFieldIdOfRef(name)

InitIds ==
    /\ names \in [kind : IdKinds, a : QualifiedNames, b : QualifiedNames]
    /\ ids = [done |-> FALSE, a |-> <<>>, b |-> <<>>]
    /\ ParseIdle
    /\ BuildIdle

FormatIds ==
    /\ ~ids.done
    /\ ids' = [done |-> TRUE,
               a |-> FormatId(names.kind, names.a),
               b |-> FormatId(names.kind, names.b)]
    /\ UNCHANGED <<names, parseVars, buildVars>>

NextIds == FormatIds

SpecIds == InitIds /\ [][NextIds]_vars

\* C5: within one kind, two distinct fully-qualified names never get the
\* same identifier.
C5_FormatIdInjective ==
    (ids.done /\ names.a # names.b) => ids.a # ids.b

-----------------------------------------------------------------------------
(* Parser harness: one call of RoleContent.parse on an arbitrary rawsource *)

RawAlphabet == {"a", " ", "\n", "~", "<", ">"}

RawTexts == UNION { [1..n -> RawAlphabet] : n \in 0..MaxRawLen }

InitParse ==
    /\ raw \in RawTexts
    /\ parsed = NotParsed
    /\ IdsIdle
    /\ BuildIdle

Parse ==
    /\ ~parsed.done
    /\ parsed' = [done |-> TRUE] @@ RoleContentParse(raw)
    /\ UNCHANGED <<raw, idVars, buildVars>>

NextParse == Parse

SpecParse == InitParse /\ [][NextParse]_vars

-----------------------------------------------------------------------------
(* Properties of RoleContent.parse, checked under SpecParse *)

\* Text written as label "<" target ">" : the "<" at position i and the ">"
\* at position j delimit a non-empty label s[1..i-1] and a non-empty target
\* s[i+1..j-1].
BracketShapes(s) ==
    { ij \in (1..Len(s)) \X (1..Len(s)) :
        /\ ij[1] >= 2
        /\ ij[2] >= ij[1] + 2
        /\ s[ij[1]] = "<"
        /\ s[ij[2]] = ">" }

NoAngle(s) == \A k \in 1..Len(s) : s[k] \notin {"<", ">"}

AllWhitespace(s) == \A k \in 1..Len(s) : s[k] \in Whitespace

\* s is exactly label "<" target ">" with no other angle bracket
IsLabelTarget(s, label, target) ==
    /\ label # <<>>
    /\ target # <<>>
    /\ NoAngle(label)
    /\ NoAngle(target)
    /\ s = label \o <<"<">> \o target \o <<">">>

LabelOf(s) == SubSeq(s, 1, (CHOOSE i \in 1..Len(s) : s[i] = "<") - 1)

TargetOf(s) == SubSeq(s, Len(LabelOf(s)) + 2, Len(s) - 1)

HasLabelTargetForm(s) ==
    /\ \E i \in 1..Len(s) : s[i] = "<"
    /\ Len(s) >= Len(LabelOf(s)) + 2
    /\ IsLabelTarget(s, LabelOf(s), TargetOf(s))

\* C6: every text "label <target>" (non-empty label and target, no leading
\* "~") parses to last_component = False, display = label.strip() and
\* ref = target.strip().
C6_LabelTargetParsed ==
    (parsed.done /\ HasLabelTargetForm(raw) /\ ~StartsWith(raw, "~"))
        => /\ ~parsed.last_component
           /\ parsed.has_display
           /\ parsed.display = Strip(LabelOf(raw))
           /\ parsed.ref = Strip(TargetOf(raw))

\* C7: every text that begins with "~" parses to last_component = True and
\* a ref that does not begin with "~".
C7_SigilNeverInRef ==
    (parsed.done /\ StartsWith(raw, "~"))
        => /\ parsed.last_component
           /\ ~StartsWith(parsed.ref, "~")

\* C8: a text with no bracket pattern and no leading "~" parses to
\* last_component = False, display = None and ref = text.strip().
C8_NoBracketWholeText ==
    (parsed.done /\ BracketShapes(raw) = {} /\ ~StartsWith(raw, "~"))
        => /\ ~parsed.last_component
           /\ ~parsed.has_display
           /\ parsed.ref = Strip(raw)

\* a text with a "<" but without bracket pattern whose surrounding whitespace was stripped
C8_Witness ==
    /\ parsed.done
    /\ BracketShapes(raw) = {}
    /\ ~StartsWith(raw, "~")
    /\ raw # <<>>
    /\ Head(raw) \in Whitespace
    /\ \E k \in 1..Len(raw) : raw[k] = "<"
    /\ parsed.ref # raw
    /\ parsed.ref = Strip(raw)

\* C10 as stated: the ref returned by parse is never empty.
C10_RefNeverEmpty == parsed.done => parsed.ref # <<>>

\* the text has the bracket shape with a target made of whitespace only
HasBlankTarget(s) ==
    \E ij \in BracketShapes(s) : AllWhitespace(SubSeq(s, ij[1] + 1, ij[2] - 1))

\* C10 amended: when the text has a non-whitespace character besides its
\* leading "~" characters, and is not of the bracket shape with a
\* whitespace-only target, the ref returned by parse is not empty.
C10_RefNonEmptyForNonBlank ==
    (/\ parsed.done
     /\ ~AllWhitespace(LStripChars(raw, {"~"}))
     /\ ~HasBlankTarget(LStripChars(raw, {"~"})))
        => parsed.ref # <<>>

\* a sigil text with a bracket pattern whose target is kept
C10_Witness ==
    /\ parsed.done
    /\ StartsWith(raw, "~")
    /\ ~AllWhitespace(LStripChars(raw, {"~"}))
    /\ ~HasBlankTarget(LStripChars(raw, {"~"}))
    /\ parsed.has_display
    /\ parsed.ref # <<>>

-----------------------------------------------------------------------------
(* The documented Python stack: what import and introspection return *)

ClassT == <<"p", ".", "T">>

ClassC == <<"q", ".", "C">>

ClassW == <<"r", ".", "W">>

ClassE == <<"r", ".", "E">>

\* p.T is a PipelineTask subclass with a docstring; q.C is not a PipelineTask
\* and has no docstring (getdoc returns None); the docstring of r.W starts,
\* after the line of the quotes, with a line of four spaces where the text
\* is indented by two; the docstring of r.E is the empty string.  doc holds
\* the lines of __doc__ as written.
Importable ==
    (ClassT :> [pipeline_task |-> TRUE,
                has_doc       |-> TRUE,
                doc           |-> << <<"S", "u", "m">>, <<"m", "a", "r", "y">>,
                                     <<>>, <<"M", "o", "r", "e">> >>])
    @@
    (ClassC :> [pipeline_task |-> FALSE,
                has_doc       |-> FALSE,
                doc           |-> <<>>])
    @@
    (ClassW :> [pipeline_task |-> FALSE,
                has_doc       |-> TRUE,
                doc           |-> << <<>>, <<" ", " ", " ", " ">>, <<>>,
                                     <<" ", " ", "M", "o", "r", "e">> >>])
    @@
    (ClassE :> [pipeline_task |-> FALSE,
                has_doc       |-> TRUE,
                doc           |-> <<>>])

\* the class names written as directive arguments in the build
TopicNames == {ClassT, ClassC}

\* the body of a directive: nothing, or one line of text
TopicContents == { <<>>, << <<"s">> >> }

-----------------------------------------------------------------------------
(* ext/lssttasks/_utils.py *)

\* len(line) - len(line.lstrip())
Indentation(line) == Len(line) - Len(LStripChars(line, Whitespace))

\* the indentation of the lines after the first that are not blank
Indentations(lines) ==
    {Indentation(lines[k]) : k \in {j \in 2..Len(lines) :
                                        LStripChars(lines[j], Whitespace) # <<>>}}

\* line[margin:]
DropMargin(line, margin) == SubSeq(line, margin + 1, Len(line))

RECURSIVE DropLeadingBlank(_)
\* while lines and not lines[0]: lines.pop(0)
DropLeadingBlank(lines) ==
    IF lines # <<>> /\ Head(lines) = <<>> THEN DropLeadingBlank(Tail(lines)) ELSE lines

\* sphinx.util.docstrings.prepare_docstring: the first line without its
\* indentation, the others without the common margin, no blank line at the
\* start and one at the end
prepare_docstring(lines) ==
    LET margins == Indentations(lines)
        dedented == [k \in 1..Len(lines) |->
                        IF k = 1 THEN LStripChars(lines[k], Whitespace)
                        ELSE IF margins = {} THEN lines[k]
                        ELSE DropMargin(lines[k],
                                        CHOOSE m \in margins : \A n \in margins : m <= n)]
        kept == DropLeadingBlank(dedented)
    IN IF kept # <<>> /\ kept[Len(kept)] # <<>> THEN Append(kept, <<>>) ELSE kept

\* get_docstring: the lines of the docstring, "Undocumented" with a warning
\* when the object has none
get_docstring(obj) ==
    IF ~Importable[obj].has_doc
    THEN [lines  |-> prepare_docstring(
                        << <<"U", "n", "d", "o", "c", "u", "m", "e", "n", "t", "e", "d">> >>),
          warned |-> << [message  |-> "Object %s doesn't have a docstring.",
                         arg      |-> obj,
                         location |-> <<>>] >>]
    ELSE [lines  |-> prepare_docstring(Importable[obj].doc),
          warned |-> <<>>]

RECURSIVE JoinLines(_)
\* " ".join(lines)
JoinLines(lines) ==
    IF lines = <<>> THEN <<>>
    ELSE IF Len(lines) = 1 THEN lines[1]
    ELSE lines[1] \o <<" ">> \o JoinLines(Tail(lines))

RECURSIVE SummaryLines(_)
\* the loop of extract_docstring_summary: the lines before the first empty
\* one
SummaryLines(docstring) ==
    IF docstring = <<>> \/ Head(docstring) = <<>> THEN <<>>
    ELSE <<Head(docstring)>> \o SummaryLines(Tail(docstring))

\* extract_docstring_summary
extract_docstring_summary(docstring) == JoinLines(SummaryLines(docstring))

\* number of components of type_name.split(".")
NumParts(type_name) ==
    1 + Cardinality({k \in 1..Len(type_name) : type_name[k] = "."})

\* get_type: SphinxError for a name without a dot, otherwise the imported
\* object (named here by its importable name)
get_type(type_name) ==
    IF NumParts(type_name) < 2
    THEN [ok |-> FALSE, exc |-> "SphinxError", obj |-> type_name]
    ELSE IF type_name \notin DOMAIN Importable
    THEN [ok |-> FALSE, exc |-> "ImportError", obj |-> type_name]
    ELSE [ok |-> TRUE, exc |-> "", obj |-> type_name]

-----------------------------------------------------------------------------
(* ext/lssttasks/_topics.py *)

TopicKinds == {"task", "configurable", "config"}

\* directive_name of the three directive classes
directive_name(kind) ==
    CASE kind = "task" -> "lsst-task-topic"
      [] kind = "configurable" -> "lsst-configurable-topic"
      [] kind = "config" -> "lsst-config-topic"

\* get_target_id of the three directive classes
get_target_id(kind, class_name) ==
    CASE kind = "task" -> format_task_id(class_name)
      [] kind = "configurable" -> format_task_id(class_name)
      [] kind = "config" -> format_config_id(class_name)

\* self.get_type(class_name).  ConfigTopicDirective defines get_object, not
\* get_type, so it inherits BaseTopicDirective.get_type, which raises
\* NotImplementedError.
directive_get_type(kind, class_name) ==
    CASE kind = "configurable" -> [ok |-> TRUE, exc |-> "", type |-> "Configurable"]
      [] kind = "task" ->
            LET obj == get_type(class_name) IN
            IF ~obj.ok THEN [ok |-> FALSE, exc |-> obj.exc, type |-> ""]
            ELSE IF Importable[obj.obj].pipeline_task
            THEN [ok |-> TRUE, exc |-> "", type |-> "PipelineTask"]
            ELSE [ok |-> TRUE, exc |-> "", type |-> "Task"]
      [] kind = "config" -> [ok |-> FALSE, exc |-> "NotImplementedError", type |-> ""]

NoDescription ==
    <<"N", "o", " ", "d", "e", "s", "c", "r", "i", "p", "t", "i", "o", "n", " ",
      "a", "v", "a", "i", "l", "a", "b", "l", "e", ".">>

\* _get_docstring_summary: the text handed to parse_text_to_nodes
get_docstring_summary(class_name) ==
    LET obj == get_type(class_name) IN
    IF ~obj.ok THEN [ok |-> FALSE, exc |-> obj.exc, nodes |-> <<>>, warned |-> <<>>]
    ELSE LET docstring == get_docstring(obj.obj)
             summary_text == extract_docstring_summary(docstring.lines)
             text == IF summary_text = <<>> THEN NoDescription ELSE summary_text
         IN [ok     |-> TRUE,
             exc    |-> "",
             nodes  |-> <<Strip(text) \o <<"\n">> >>,
             warned |-> docstring.warned]

\* _create_summary_node: the directive's content when it has some, the
\* docstring summary otherwise
create_summary_node(class_name, content) ==
    IF Len(content) > 0
    THEN [ok |-> TRUE, exc |-> "", nodes |-> content, warned |-> <<>>]
    ELSE get_docstring_summary(class_name)

\* nodes.target("", "", ids=[target_id])
TargetNode(target_id) ==
    [type |-> "target", ids |-> <<target_id>>, has_refid |-> FALSE, refid |-> <<>>]

\* the registry created anew at every store
StoreTopic_Fresh(e, target_id, record) ==
    [e EXCEPT !.has_task_topics = TRUE,
              !.lsst_task_topics = (target_id :> record)]

\* a record already stored under the identifier kept
StoreTopic_KeepFirst(e, target_id, record) ==
    LET topics == IF e.has_task_topics THEN e.lsst_task_topics ELSE <<>>
    IN [e EXCEPT !.has_task_topics = TRUE,
                 !.lsst_task_topics = topics @@ (target_id :> record)]

\* lines 62-65: create the registry on first use, then store the record
StoreTopic(e, target_id, record) ==
    LET topics == IF e.has_task_topics THEN e.lsst_task_topics ELSE <<>>
    IN [e EXCEPT !.has_task_topics = TRUE,
                 !.lsst_task_topics = (target_id :> record) @@ topics]

\* lines 62-63 alone: what is left when building the record raises
CreateRegistry(e) ==
    IF e.has_task_topics THEN e
    ELSE [e EXCEPT !.has_task_topics = TRUE, !.lsst_task_topics = <<>>]

SphinxError(kind) ==
    [exc       |-> "SphinxError",
     directive |-> directive_name(kind),
     message   |-> "directive requires a class name as an argument"]

Raised(exc, kind) == [exc |-> exc, directive |-> directive_name(kind), message |-> ""]

\* run with the registry created before the arguments are looked at
TopicRun_RegistryFirst(e, kind, arguments, content, lineno) ==
    IF arguments = <<>>
    THEN [nodes |-> <<>>, env |-> CreateRegistry(e), warned |-> <<>>,
          raised |-> <<SphinxError(kind)>>]
    ELSE
    LET class_name == arguments[1]
        summary == create_summary_node(class_name, content)
        target_id == get_target_id(kind, class_name)
        target_node == TargetNode(target_id)
        type == directive_get_type(kind, class_name)
    IN IF ~summary.ok
       THEN [nodes |-> <<>>, env |-> CreateRegistry(e), warned |-> <<>>,
             raised |-> <<Raised(summary.exc, kind)>>]
       ELSE IF ~type.ok
       THEN [nodes |-> <<>>, env |-> CreateRegistry(e), warned |-> summary.warned,
             raised |-> <<Raised(type.exc, kind)>>]
       ELSE [nodes  |-> <<target_node>>,
             env    |-> StoreTopic(e, target_id,
                           [docname              |-> e.docname,
                            lineno               |-> lineno,
                            target               |-> target_node,
                            summary_node         |-> summary.nodes,
                            fully_qualified_name |-> class_name,
                            type                 |-> type.type]),
             warned |-> summary.warned,
             raised |-> <<>>]

\* BaseTopicDirective.run on environment e: the nodes returned, the
\* environment afterwards, the warnings logged and the exception raised
TopicRun(e, kind, arguments, content, lineno) ==
    IF arguments = <<>>
    THEN [nodes |-> <<>>, env |-> e, warned |-> <<>>, raised |-> <<SphinxError(kind)>>]
    ELSE
    LET class_name == arguments[1]
        summary == create_summary_node(class_name, content)
        target_id == get_target_id(kind, class_name)
        target_node == TargetNode(target_id)
        type == directive_get_type(kind, class_name)
    IN IF ~summary.ok
       THEN [nodes |-> <<>>, env |-> e, warned |-> <<>>,
             raised |-> <<Raised(summary.exc, kind)>>]
       ELSE IF ~type.ok
       THEN [nodes |-> <<>>, env |-> CreateRegistry(e), warned |-> summary.warned,
             raised |-> <<Raised(type.exc, kind)>>]
       ELSE [nodes  |-> <<target_node>>,
             env    |-> StoreTopic(e, target_id,
                           [docname              |-> e.docname,
                            lineno               |-> lineno,
                            target               |-> target_node,
                            summary_node         |-> summary.nodes,
                            fully_qualified_name |-> class_name,
                            type                 |-> type.type]),
             warned |-> summary.warned,
             raised |-> <<>>]

-----------------------------------------------------------------------------
(* ext/lssttasks/_crossrefs.py: roles and doctree-resolved handlers *)

RoleKinds == {"task", "config", "configfield"}

\* the node class each role leaves in the doctree
PendingType(kind) ==
    CASE kind = "task" -> "pending_task_xref"
      [] kind = "config" -> "pending_config_xref"
      [] kind = "configfield" -> "pending_configfield_xref"

\* TaskReferenceRole.run, ConfigReferenceRole.run, ConfigFieldReferenceRole.run
RoleRun(kind, text) == [type |-> PendingType(kind), rawsource |-> text]

\* literal() with one Text child
Literal(text) == [type |-> "literal", text |-> text]

\* reference("", "") with refdocname, refuri and the label as child; refuri
\* is get_relative_uri(fromdocname, docname) + "#" + fragment
Reference(fromdocname, docname, fragment, label) ==
    [type       |-> "reference",
     refdocname |-> docname,
     refuri     |-> [from |-> fromdocname, to |-> docname, fragment |-> fragment],
     children   |-> <<label>>]

\* the sigil looked at before the custom display text
DisplayText_SigilFirst(role_parts) ==
    IF role_parts.last_component
    THEN LastComponent(role_parts.ref)
    ELSE IF role_parts.has_display /\ role_parts.display # <<>>
    THEN role_parts.display
    ELSE role_parts.ref

\* lines 134-141, 209-216, 290-297: the display text of a role
DisplayText(role_parts) ==
    IF role_parts.has_display /\ role_parts.display # <<>>
    THEN role_parts.display
    ELSE IF role_parts.last_component
    THEN LastComponent(role_parts.ref)
    ELSE role_parts.ref

\* hasattr(env, "lsst_task_topics") and id in env.lsst_task_topics
InTaskTopics(e, id) == e.has_task_topics /\ id \in DOMAIN e.lsst_task_topics

\* hasattr(env, "lsst_configfields") and id in env.lsst_configfields
InConfigFields(e, id) == e.has_configfields /\ id \in DOMAIN e.lsst_configfields

Warning(message, ref, location) ==
    [message |-> message, arg |-> ref, location |-> location]

\* the found branch with the referring document taken for the topic's
TopicReference_FromDoc(data, fromdocname, link_label) ==
    IF ~data.target.has_refid
    THEN [content |-> <<>>, warned |-> <<>>, raised |-> <<"KeyError">>]
    ELSE [content |-> <<Reference(fromdocname, fromdocname,
                                  data.target.refid, link_label)>>,
          warned  |-> <<>>,
          raised  |-> <<>>]

\* the found branch of the task and config handlers; target["refid"] raises
\* KeyError when the target node has no refid
TopicReference(data, fromdocname, link_label) ==
    IF ~data.target.has_refid
    THEN [content |-> <<>>, warned |-> <<>>, raised |-> <<"KeyError">>]
    ELSE [content |-> <<Reference(fromdocname, data.docname,
                                  data.target.refid, link_label)>>,
          warned  |-> <<>>,
          raised  |-> <<>>]

\* the task handler warning with the display text instead of the ref
TaskXrefContent_WarnsDisplay(e, node, fromdocname, location) ==
    LET role_parts == RoleContentParse(node.rawsource)
        task_id == format_task_id(role_parts.ref)
        link_label == Literal(DisplayText(role_parts))
    IN IF InTaskTopics(e, task_id)
       THEN TopicReference(e.lsst_task_topics[task_id], fromdocname, link_label)
       ELSE [content |-> <<link_label>>,
             warned  |-> <<Warning("lsst-task could not find a reference to %s",
                                   DisplayText(role_parts), location)>>,
             raised  |-> <<>>]

\* body of the loop of process_pending_task_xref_nodes
TaskXrefContent(e, node, fromdocname, location) ==
    LET role_parts == RoleContentParse(node.rawsource)
        task_id == format_task_id(role_parts.ref)
        link_label == Literal(DisplayText(role_parts))
    IN IF InTaskTopics(e, task_id)
       THEN TopicReference(e.lsst_task_topics[task_id], fromdocname, link_label)
       ELSE [content |-> <<link_label>>,
             warned  |-> <<Warning("lsst-task could not find a reference to %s",
                                   role_parts.ref, location)>>,
             raised  |-> <<>>]

\* body of the loop of process_pending_config_xref_nodes
ConfigXrefContent(e, node, fromdocname, location) ==
    LET role_parts == RoleContentParse(node.rawsource)
        config_id == format_config_id(role_parts.ref)
        link_label == Literal(DisplayText(role_parts))
    IN IF InTaskTopics(e, config_id)
       THEN TopicReference(e.lsst_task_topics[config_id], fromdocname, link_label)
       ELSE [content |-> <<link_label>>,
             warned  |-> <<Warning("lsst-config could not find a reference to %s",
                                   role_parts.ref, location)>>,
             raised  |-> <<>>]

\* the config-field handler falling back to the display text, as the other
\* two handlers do
ConfigFieldXrefContent_DisplayFallback(e, node, fromdocname, location) ==
    LET role_parts == RoleContentParse(node.rawsource)
        field_name == LastComponent(role_parts.ref)
        class_namespace == ClassNamespace(role_parts.ref)
        configfield_id == format_configfield_id(class_namespace, field_name)
        display_text == DisplayText(role_parts)
    IN IF InConfigFields(e, configfield_id)
       THEN [content |-> <<Reference(fromdocname,
                                     e.lsst_configfields[configfield_id].docname,
                                     configfield_id, Literal(display_text))>>,
             warned  |-> <<>>,
             raised  |-> <<>>]
       ELSE [content |-> <<Literal(display_text)>>,
             warned  |-> <<Warning("lsst-config-field could not find a reference to %s",
                                   role_parts.ref, location)>>,
             raised  |-> <<>>]

\* body of the loop of process_pending_configfield_xref_nodes
ConfigFieldXrefContent(e, node, fromdocname, location) ==
    LET role_parts == RoleContentParse(node.rawsource)
        field_name == LastComponent(role_parts.ref)
        class_namespace == ClassNamespace(role_parts.ref)
        configfield_id == format_configfield_id(class_namespace, field_name)
        display_text == DisplayText(role_parts)
    IN IF InConfigFields(e, configfield_id)
       THEN [content |-> <<Reference(fromdocname,
                                     e.lsst_configfields[configfield_id].docname,
                                     configfield_id, Literal(display_text))>>,
             warned  |-> <<>>,
             raised  |-> <<>>]
       ELSE [content |-> <<Literal(field_name)>>,
             warned  |-> <<Warning("lsst-config-field could not find a reference to %s",
                                   role_parts.ref, location)>>,
             raised  |-> <<>>]

XrefContent(kind, e, node, fromdocname, location) ==
    CASE kind = "task" -> TaskXrefContent(e, node, fromdocname, location)
      [] kind = "config" -> ConfigXrefContent(e, node, fromdocname, location)
      [] kind = "configfield" -> ConfigFieldXrefContent(e, node, fromdocname, location)

\* node.replace_self(content): content takes the place of the node at i
ReplaceSelf(tree, i, content) ==
    SubSeq(tree, 1, i - 1) \o content \o SubSeq(tree, i + 1, Len(tree))

\* the results of one node's replacement and of the rest of the loop, joined
JoinResults(r, rest) ==
    [tree   |-> rest.tree,
     warned |-> r.warned \o rest.warned,
     raised |-> rest.raised]

RECURSIVE ProcessPendingFrom(_, _, _, _, _)
RECURSIVE ReplaceAndContinue(_, _, _, _, _, _)
\* the loop ended after the first node it replaces
ReplaceAndContinue_Stops(kind, e, tree, fromdocname, i, r) ==
    IF r.raised # <<>>
    THEN [tree |-> tree, warned |-> <<>>, raised |-> r.raised]
    ELSE [tree |-> ReplaceSelf(tree, i, r.content), warned |-> r.warned, raised |-> <<>>]

\* node.replace_self(content) for the node at i with the content r computed
\* for it, then the rest of the loop; an exception ends the loop
ReplaceAndContinue(kind, e, tree, fromdocname, i, r) ==
    IF r.raised # <<>>
    THEN [tree |-> tree, warned |-> <<>>, raised |-> r.raised]
    ELSE JoinResults(r, ProcessPendingFrom(kind, e, ReplaceSelf(tree, i, r.content),
                                           fromdocname, i + Len(r.content)))

\* "for node in doctree.traverse(pending_..._xref)" from position i on
ProcessPendingFrom(kind, e, tree, fromdocname, i) ==
    IF i > Len(tree)
    THEN [tree |-> tree, warned |-> <<>>, raised |-> <<>>]
    ELSE IF tree[i].type # PendingType(kind)
    THEN ProcessPendingFrom(kind, e, tree, fromdocname, i + 1)
    ELSE ReplaceAndContinue(kind, e, tree, fromdocname, i,
             XrefContent(kind, e, tree[i], fromdocname, <<fromdocname, i>>))

process_pending_task_xref_nodes(e, tree, fromdocname) ==
    ProcessPendingFrom("task", e, tree, fromdocname, 1)

process_pending_config_xref_nodes(e, tree, fromdocname) ==
    ProcessPendingFrom("config", e, tree, fromdocname, 1)

process_pending_configfield_xref_nodes(e, tree, fromdocname) ==
    ProcessPendingFrom("configfield", e, tree, fromdocname, 1)

\* the outcome of the handlers run so far followed by the next handler's
\* outcome; an exception in one ends the event
AfterHandler(done, next) ==
    IF done.raised # <<>> THEN done
    ELSE [tree   |-> next.tree,
          warned |-> done.warned \o next.warned,
          raised |-> next.raised]

\* the second handler runs on the doctree the first one left
ThenConfigHandler(t, e, fromdocname) ==
    AfterHandler(t, process_pending_config_xref_nodes(e, t.tree, fromdocname))

\* the third handler runs on the doctree the second one left
ThenConfigFieldHandler(c, e, fromdocname) ==
    AfterHandler(c, process_pending_configfield_xref_nodes(e, c.tree, fromdocname))

\* the doctree-resolved event: the three handlers in the order setup()
\* connected them
EmitDoctreeResolved(e, tree, fromdocname) ==
    ThenConfigFieldHandler(
        ThenConfigHandler(process_pending_task_xref_nodes(e, tree, fromdocname),
                          e, fromdocname),
        e, fromdocname)

-----------------------------------------------------------------------------
(* The build: documents are read one after the other, then doctree-resolved
   is emitted for every document *)

Range(f) == {f[k] : k \in DOMAIN f}

FieldF == <<"f">>

Dotted(class_name, field_name) == class_name \o <<".">> \o field_name

WithSigil(text) == <<"~">> \o text

WithLabel(text) == <<"L", " ", "<">> \o text \o <<">">>

\* the texts written in the roles of each kind
RoleTexts(kind) ==
    IF kind = "configfield"
    THEN {Dotted(ClassT, FieldF), WithSigil(Dotted(ClassT, FieldF)),
          WithLabel(Dotted(ClassT, FieldF))}
    ELSE {ClassT, WithSigil(ClassT), WithLabel(ClassT)}

\* number of entries of the given markup processed in the build so far
Processed(markup) ==
    Cardinality({ dk \in Docs \X (1..(MaxTopics + MaxRoles)) :
                    /\ dk[2] <= Len(source[dk[1]])
                    /\ source[dk[1]][dk[2]].markup = markup })

AllRead == env.docname = NoDoc /\ Range(readlog) = Docs

\* docutils gives a target node that is followed by a body element the
\* refid of its first id (the ids move to that element)
PropagateTarget(node) ==
    IF node.type = "target" /\ ~node.has_refid /\ node.ids # <<>>
    THEN [node EXCEPT !.has_refid = TRUE, !.refid = node.ids[1], !.ids = <<>>]
    ELSE node

\* the record of the registry holds the target node of the doctree itself
PropagateRecord(record, docname) ==
    IF record.docname = docname
    THEN [record EXCEPT !.target = PropagateTarget(record.target)]
    ELSE record

\* the record of a configuration field goes to lsst_configfields, created
\* on first use
StoreConfigField(e, configfield_id) ==
    LET fields == IF e.has_configfields THEN e.lsst_configfields ELSE <<>>
    IN [e EXCEPT !.has_configfields = TRUE,
                 !.lsst_configfields =
                     (configfield_id :> [docname |-> e.docname]) @@ fields]

\* the transforms of document d applied to the records made in d
PropagateRecords(e, d) ==
    [e EXCEPT !.lsst_task_topics = [id \in DOMAIN @ |-> PropagateRecord(@[id], d)]]

Init ==
    /\ BuildIdle
    /\ ParseIdle
    /\ IdsIdle

\* the builder starts to read document d
StartRead(d) ==
    /\ env.docname = NoDoc
    /\ d \notin Range(readlog)
    /\ env' = [env EXCEPT !.docname = d]
    /\ readlog' = Append(readlog, d)
    /\ UNCHANGED <<doctree, source, resolved, warnings, raised>>

\* a topic directive of the document being read runs
TopicDirective(kind, arguments, content) ==
    /\ env.docname # NoDoc
    /\ Processed("directive") < MaxTopics
    /\ LET d == env.docname
           r == TopicRun(env, kind, arguments, content, Len(source[d]) + 1)
       IN /\ env' = r.env
          /\ doctree' = [doctree EXCEPT ![d] = @ \o r.nodes]
          /\ source' = [source EXCEPT ![d] =
                            Append(@, [markup |-> "directive",
                                       kind   |-> kind,
                                       text   |-> arguments,
                                       content |-> content,
                                       ok     |-> r.raised = <<>>,
                                       node   |-> IF r.nodes = <<>> THEN 0
                                                  ELSE Len(doctree[d]) + 1])]
          /\ warnings' = warnings \o r.warned
          /\ raised' = raised \o r.raised
    /\ UNCHANGED <<readlog, resolved>>

\* a reference role of the document being read runs
ReferenceRole(kind, text) ==
    /\ env.docname # NoDoc
    /\ Processed("role") < MaxRoles
    /\ LET d == env.docname
       IN /\ doctree' = [doctree EXCEPT ![d] = Append(@, RoleRun(kind, text))]
          /\ source' = [source EXCEPT ![d] =
                            Append(@, [markup |-> "role",
                                       kind   |-> kind,
                                       text   |-> <<text>>,
                                       content |-> <<>>,
                                       ok     |-> TRUE,
                                       node   |-> Len(doctree[d]) + 1])]
    /\ UNCHANGED <<env, readlog, resolved, warnings, raised>>

\* the document being read is finished: its transforms have run
FinishRead ==
    /\ env.docname # NoDoc
    /\ LET d == env.docname
       IN /\ doctree' = [doctree EXCEPT ![d] =
                            [k \in 1..Len(@) |-> PropagateTarget(@[k])]]
          /\ env' = [PropagateRecords(env, d) EXCEPT !.docname = NoDoc]
    /\ UNCHANGED <<source, readlog, resolved, warnings, raised>>

\* doctree-resolved is emitted for document d, once every document is read
DoctreeResolved(d) ==
    /\ AllRead
    /\ d \notin resolved
    /\ LET r == EmitDoctreeResolved(env, doctree[d], d)
       IN /\ doctree' = [doctree EXCEPT ![d] = r.tree]
          /\ warnings' = warnings \o r.warned
          /\ raised' = raised \o [k \in 1..Len(r.raised) |->
                                    [exc |-> r.raised[k], directive |-> "", message |-> ""]]
    /\ resolved' = resolved \cup {d}
    /\ UNCHANGED <<env, source, readlog>>

\* a configuration-field topic of the document being read is declared: its
\* record goes to the second registry attribute, lsst_configfields
ConfigFieldTopic(class_name, field_name) ==
    /\ env.docname # NoDoc
    /\ Processed("directive") < MaxTopics
    /\ LET d == env.docname
           configfield_id == format_configfield_id(class_name, field_name)
       IN /\ env' = StoreConfigField(env, configfield_id)
          /\ doctree' = [doctree EXCEPT ![d] = Append(@, TargetNode(configfield_id))]
          /\ source' = [source EXCEPT ![d] =
                            Append(@, [markup |-> "directive",
                                       kind   |-> "configfield",
                                       text   |-> <<Dotted(class_name, field_name)>>,
                                       content |-> <<>>,
                                       ok     |-> TRUE,
                                       node   |-> Len(doctree[d]) + 1])]
    /\ UNCHANGED <<readlog, resolved, warnings, raised>>

\* the directives of the build name a class of the stack and have no body
BuildContents == { <<>> }

BuildArguments == {<<n>> : n \in TopicNames}

Next ==
    \/ \E d \in Docs : StartRead(d) /\ UNCHANGED <<parseVars, idVars, workers>>
    \/ \E kind \in TopicKinds, content \in BuildContents, arguments \in BuildArguments :
            TopicDirective(kind, arguments, content) /\ UNCHANGED <<parseVars, idVars, workers>>
    \/ \E class_name \in TopicNames :
            ConfigFieldTopic(class_name, FieldF) /\ UNCHANGED <<parseVars, idVars, workers>>
    \/ \E kind \in RoleKinds : \E text \in RoleTexts(kind) :
            ReferenceRole(kind, text) /\ UNCHANGED <<parseVars, idVars, workers>>
    \/ FinishRead /\ UNCHANGED <<parseVars, idVars, workers>>
    \/ \E d \in Docs : DoctreeResolved(d) /\ UNCHANGED <<parseVars, idVars, workers>>

Spec == Init /\ [][Next]_vars

-----------------------------------------------------------------------------
(* Directive harness: the directives of one document, with every kind of
   argument and body *)

\* a name without a dot, which get_type rejects
Unqualified == <<"T">>

HarnessArguments == {<<n>> : n \in DOMAIN Importable} \cup {<<>>, <<Unqualified>>}

InitTopic ==
    /\ SerialRead
    /\ env = [NewEnv EXCEPT !.docname = "d1"]
    /\ doctree = [d \in Docs |-> <<>>]
    /\ source = [d \in Docs |-> <<>>]
    /\ readlog = <<"d1">>
    /\ resolved = {}
    /\ warnings = <<>>
    /\ raised = <<>>
    /\ ParseIdle
    /\ IdsIdle

NextTopic ==
    \/ \E kind \in TopicKinds, content \in TopicContents, arguments \in HarnessArguments :
            TopicDirective(kind, arguments, content) /\ UNCHANGED <<parseVars, idVars, workers>>
    \/ FinishRead /\ UNCHANGED <<parseVars, idVars, workers>>

SpecTopic == InitTopic /\ [][NextTopic]_vars

-----------------------------------------------------------------------------
(* Handler harness: every document is read; the three handlers run on the
   tree of d1, each any number of times and in any order *)

\* environment e after document d declared a topic of the given kind
DeclareTopic(e, d, kind, class_name) ==
    LET r == TopicRun([e EXCEPT !.docname = d], kind, <<class_name>>, <<>>, 1)
    IN [PropagateRecords(r.env, d) EXCEPT !.docname = NoDoc]

\* environment e after document d declared a configuration field
DeclareConfigField(e, d, class_name, field_name) ==
    [StoreConfigField([e EXCEPT !.docname = d],
                      format_configfield_id(class_name, field_name))
        EXCEPT !.docname = NoDoc]

\* the environments the handlers are run with
TopicEnvs ==
    {NewEnv,
     DeclareTopic(NewEnv, "d1", "task", ClassT),
     DeclareTopic(NewEnv, "d2", "configurable", ClassT),
     DeclareTopic(NewEnv, "d1", "config", ClassT)}

ResolveEnvs ==
    TopicEnvs \cup {DeclareConfigField(e, "d2", ClassT, FieldF) : e \in TopicEnvs}

\* a label of whitespace only, after the sigil
WithBlankLabel(text) == <<"~", " ", "<">> \o text \o <<">">>

\* the texts of the roles in the tree handed to the handlers
ResolveTexts(kind) ==
    LET name == IF kind = "configfield" THEN Dotted(ClassT, FieldF) ELSE ClassT
        other == IF kind = "configfield" THEN Dotted(ClassC, FieldF) ELSE ClassC
    IN {name, WithSigil(name), WithLabel(name), WithSigil(WithLabel(name)),
        WithBlankLabel(name), WithLabel(other)}

ResolveRoles == UNION { {<<kind, text>> : text \in ResolveTexts(kind)} : kind \in RoleKinds }

RoleSeqs == UNION { [1..n -> ResolveRoles] : n \in 0..MaxNodes }

InitResolve ==
    /\ SerialRead
    /\ env \in ResolveEnvs
    /\ \E roles \in RoleSeqs :
        /\ source = [d \in Docs |->
                        IF d = "d1"
                        THEN [k \in 1..Len(roles) |->
                                [markup  |-> "role",
                                 kind    |-> roles[k][1],
                                 text    |-> <<roles[k][2]>>,
                                 content |-> <<>>,
                                 ok      |-> TRUE,
                                 node    |-> k]]
                        ELSE <<>>]
        /\ doctree = [d \in Docs |->
                        IF d = "d1"
                        THEN [k \in 1..Len(roles) |-> RoleRun(roles[k][1], roles[k][2])]
                        ELSE <<>>]
    /\ readlog = <<"d1", "d2">>
    /\ resolved = {}
    /\ warnings = <<>>
    /\ raised = <<>>
    /\ ParseIdle
    /\ IdsIdle

\* the handler connected for the placeholders of a kind
Handler(kind, e, tree, fromdocname) ==
    CASE kind = "task" -> process_pending_task_xref_nodes(e, tree, fromdocname)
      [] kind = "config" -> process_pending_config_xref_nodes(e, tree, fromdocname)
      [] kind = "configfield" ->
            process_pending_configfield_xref_nodes(e, tree, fromdocname)

\* the handler creating the registry it finds missing
ResolvePass_CreatesRegistry(kind, d) ==
    /\ AllRead
    /\ LET r == Handler(kind, env, doctree[d], d)
       IN /\ doctree' = [doctree EXCEPT ![d] = r.tree]
          /\ warnings' = warnings \o r.warned
          /\ raised' = raised \o [k \in 1..Len(r.raised) |->
                                    [exc |-> r.raised[k], directive |-> "", message |-> ""]]
    /\ env' = CreateRegistry(env)
    /\ UNCHANGED <<source, readlog, resolved>>

\* one handler runs on the tree of document d
ResolvePass(kind, d) ==
    /\ AllRead
    /\ LET r == Handler(kind, env, doctree[d], d)
       IN /\ doctree' = [doctree EXCEPT ![d] = r.tree]
          /\ warnings' = warnings \o r.warned
          /\ raised' = raised \o [k \in 1..Len(r.raised) |->
                                    [exc |-> r.raised[k], directive |-> "", message |-> ""]]
    /\ UNCHANGED <<env, source, readlog, resolved>>

NextResolve ==
    \E kind \in RoleKinds, d \in Docs :
        ResolvePass(kind, d) /\ UNCHANGED <<parseVars, idVars, workers>>

SpecResolve == InitResolve /\ [][NextResolve]_vars

-----------------------------------------------------------------------------
(* Parallel read: setup() declares parallel_read_safe, so Sphinx may read
   the documents in forked processes, each on its own copy of the
   environment, and merge every copy into the environment of the main
   process when the process ends.  The doctrees go through the disk. *)

\* the document each reading process is given
ChunkOf(w) == IF w = "w1" THEN "d1" ELSE "d2"

\* what the markup of a parallel build names
ParallelRoleText(kind) == IF kind = "configfield" THEN Dotted(ClassT, FieldF) ELSE ClassT

\* BuildEnvironment.merge_info_from for the attributes of this extension:
\* Sphinx merges its own tables and emits env-merge-info; setup() connects
\* no handler to it, so nothing of other reaches the main environment
MergeInfoFrom(main, other) == main

InitParallel ==
    /\ BuildIdle
    /\ ParseIdle
    /\ IdsIdle

\* the main process forks the process that reads the chunk of w
Fork(w) ==
    /\ workers[w].state = "none"
    /\ workers' = [workers EXCEPT ![w] = [state   |-> "reading",
                                          docname |-> ChunkOf(w),
                                          env     |-> [env EXCEPT !.docname = ChunkOf(w)]]]
    /\ readlog' = Append(readlog, ChunkOf(w))
    /\ UNCHANGED <<env, doctree, source, resolved, warnings, raised>>

\* a topic directive runs in the process of w
WorkerTopicDirective(w, kind, arguments, content) ==
    /\ workers[w].state = "reading"
    /\ Processed("directive") < MaxTopics
    /\ LET d == workers[w].docname
           r == TopicRun(workers[w].env, kind, arguments, content, Len(source[d]) + 1)
       IN /\ workers' = [workers EXCEPT ![w].env = r.env]
          /\ doctree' = [doctree EXCEPT ![d] = @ \o r.nodes]
          /\ source' = [source EXCEPT ![d] =
                            Append(@, [markup |-> "directive",
                                       kind   |-> kind,
                                       text   |-> arguments,
                                       content |-> content,
                                       ok     |-> r.raised = <<>>,
                                       node   |-> IF r.nodes = <<>> THEN 0
                                                  ELSE Len(doctree[d]) + 1])]
          /\ warnings' = warnings \o r.warned
          /\ raised' = raised \o r.raised
    /\ UNCHANGED <<env, readlog, resolved>>

\* a reference role runs in the process of w
WorkerReferenceRole(w, kind, text) ==
    /\ workers[w].state = "reading"
    /\ Processed("role") < MaxRoles
    /\ LET d == workers[w].docname
       IN /\ doctree' = [doctree EXCEPT ![d] = Append(@, RoleRun(kind, text))]
          /\ source' = [source EXCEPT ![d] =
                            Append(@, [markup |-> "role",
                                       kind   |-> kind,
                                       text   |-> <<text>>,
                                       content |-> <<>>,
                                       ok     |-> TRUE,
                                       node   |-> Len(doctree[d]) + 1])]
    /\ UNCHANGED <<env, workers, readlog, resolved, warnings, raised>>

\* the process of w ends: its document went through the transforms, and
\* the main process merges the environment it sent back
Merge(w) ==
    /\ workers[w].state = "reading"
    /\ LET d == workers[w].docname
           sent == [PropagateRecords(workers[w].env, d) EXCEPT !.docname = NoDoc]
       IN /\ doctree' = [doctree EXCEPT ![d] =
                            [k \in 1..Len(@) |-> PropagateTarget(@[k])]]
          /\ env' = MergeInfoFrom(env, sent)
          /\ workers' = [workers EXCEPT ![w] = [state   |-> "merged",
                                                docname |-> d,
                                                env     |-> sent]]
    /\ UNCHANGED <<source, readlog, resolved, warnings, raised>>

\* every reading process has ended and was merged
AllMerged == \A w \in Workers : workers[w].state = "merged"

\* doctree-resolved is emitted in the main process, after the merges
ParallelDoctreeResolved(d) ==
    /\ AllMerged
    /\ DoctreeResolved(d)
    /\ UNCHANGED workers

NextParallel ==
    \/ \E w \in Workers : Fork(w) /\ UNCHANGED <<parseVars, idVars>>
    \/ \E w \in Workers, kind \in TopicKinds :
            WorkerTopicDirective(w, kind, <<ClassT>>, <<>>) /\ UNCHANGED <<parseVars, idVars>>
    \/ \E w \in Workers, kind \in RoleKinds :
            WorkerReferenceRole(w, kind, ParallelRoleText(kind))
                /\ UNCHANGED <<parseVars, idVars>>
    \/ \E w \in Workers : Merge(w) /\ UNCHANGED <<parseVars, idVars>>
    \/ \E d \in Docs : ParallelDoctreeResolved(d) /\ UNCHANGED <<parseVars, idVars>>

SpecParallel == InitParallel /\ [][NextParallel]_vars

-----------------------------------------------------------------------------
(* Properties of the build, checked under Spec *)

\* the entries of document d, by position
Items(d) == 1..Len(source[d])

IsRole(item, kind) == item.markup = "role" /\ item.kind = kind

\* a directive that stored a record in lsst_task_topics
IsStoredTopic(item) ==
    item.markup = "directive" /\ item.kind \in TopicKinds /\ item.ok

\* the reference role that goes with a topic directive
RoleKindOf(topic_kind) == IF topic_kind = "config" THEN "config" ELSE "task"

\* place of document d in the reading order
ReadAt(d) == CHOOSE k \in 1..Len(readlog) : readlog[k] = d

\* the identifier a handler computes for a role text
RoleTargetId(kind, text) ==
    LET ref == RoleContentParse(text).ref
    IN CASE kind = "task" -> format_task_id(ref)
         [] kind = "config" -> format_config_id(ref)
         [] kind = "configfield" -> ConfigFieldIdOfRef(ref)

\* the identifier is a key of the registry the handler of that kind reads
InRegistry(kind, id) ==
    IF kind = "configfield" THEN InConfigFields(env, id) ELSE InTaskTopics(env, id)

WarningsAt(location) ==
    {k \in 1..Len(warnings) : warnings[k].location = location}

\* C1: once a topic directive of any kind has been processed for name N, a
\* same-kind role whose text is exactly N resolves, in any document, to a
\* hyperlink labelled N, without a warning.
C1_DeclaredNameResolvesToLink ==
    \A dd \in Docs, d \in resolved : \A i \in Items(dd), k \in Items(d) :
        LET decl == source[dd][i]
            role == source[d][k]
        IN (/\ decl.markup = "directive"
            /\ decl.kind \in TopicKinds
            /\ decl.text # <<>>
            /\ IsRole(role, RoleKindOf(decl.kind))
            /\ role.text = decl.text)
           => /\ doctree[d][role.node].type = "reference"
              /\ doctree[d][role.node].children = <<Literal(decl.text[1])>>
              /\ WarningsAt(<<d, role.node>>) = {}

\* C3: a role whose identifier is not in the registry (the registry
\* attribute may not exist at all) never makes a handler raise; it becomes
\* a plain literal and exactly one warning, naming its target, is logged.
C3_UnregisteredFallsBackWithOneWarning ==
    /\ \A k \in 1..Len(raised) : raised[k].directive # ""
    /\ \A d \in resolved : \A k \in Items(d) :
        LET role == source[d][k]
        IN (/\ role.markup = "role"
            /\ ~InRegistry(role.kind, RoleTargetId(role.kind, role.text[1])))
           => /\ doctree[d][role.node].type = "literal"
              /\ Cardinality(WarningsAt(<<d, role.node>>)) = 1
              /\ \A w \in WarningsAt(<<d, role.node>>) :
                    warnings[w].arg = RoleContentParse(role.text[1]).ref

\* an unregistered config-field role resolved against an existing registry,
\* and an unregistered task role resolved when lsst_task_topics was never
\* created
C3_Witness ==
    \E d \in resolved : \E k \in Items(d) :
        LET role == source[d][k]
        IN /\ role.markup = "role"
           /\ ~InRegistry(role.kind, RoleTargetId(role.kind, role.text[1]))
           /\ doctree[d][role.node].type = "literal"
           /\ \/ role.kind = "configfield" /\ env.has_configfields
              \/ role.kind = "task" /\ ~env.has_task_topics /\ StartsWith(role.text[1], "~")

\* the anchor a directive left in its document carries the identifier
AnchorIn(d, node, id) ==
    /\ node > 0
    /\ doctree[d][node].type = "target"
    /\ \/ doctree[d][node].has_refid /\ doctree[d][node].refid = id
       \/ id \in Range(doctree[d][node].ids)

\* what C4 asserts of a task-topic directive for class C at entry i of d1
LinksToDeclaration(d1, i) ==
    LET decl == source[d1][i]
        id == format_task_id(decl.text[1])
    IN \A d2 \in resolved : \A k \in Items(d2) :
        LET role == source[d2][k]
        IN (IsRole(role, "task") /\ role.text = <<WithSigil(decl.text[1])>>)
           => /\ doctree[d2][role.node] =
                    Reference(d2, d1, id, Literal(LastComponent(decl.text[1])))
              /\ AnchorIn(d1, decl.node, id)

\* C4 as stated: a task-topic directive for C processed in d1 makes every
\* task role "~C" resolve to a hyperlink into d1, at the anchor the
\* directive emitted, labelled with the last component of C.
C4_SigilRoleLinksToDeclaringDocument ==
    \A d1 \in Docs : \A i \in Items(d1) :
        (IsStoredTopic(source[d1][i]) /\ source[d1][i].kind = "task")
            => LinksToDeclaration(d1, i)

\* a document read after d1 stored a record under the same identifier
StoredAgainLater(d1, id) ==
    \E d \in Range(readlog) \ {d1} : \E k \in Items(d) :
        /\ IsStoredTopic(source[d][k])
        /\ get_target_id(source[d][k].kind, source[d][k].text[1]) = id
        /\ ReadAt(d) > ReadAt(d1)

\* C4 amended: the same, provided no document read after d1 declares a
\* topic with the identifier of C.
C4_SigilRoleLinksToLastDeclaration ==
    \A d1 \in Docs : \A i \in Items(d1) :
        (/\ IsStoredTopic(source[d1][i])
         /\ source[d1][i].kind = "task"
         /\ ~StoredAgainLater(d1, format_task_id(source[d1][i].text[1])))
            => LinksToDeclaration(d1, i)

\* C declared in d1, "~C" written in another document that was read first
C4_Witness ==
    \E d1 \in Docs, d2 \in resolved : \E i \in Items(d1), k \in Items(d2) :
        /\ d1 # d2
        /\ ReadAt(d2) < ReadAt(d1)
        /\ IsStoredTopic(source[d1][i])
        /\ source[d1][i].kind = "task"
        /\ IsRole(source[d2][k], "task")
        /\ source[d2][k].text = <<WithSigil(source[d1][i].text[1])>>
        /\ doctree[d2][source[d2][k].node].type = "reference"
        /\ doctree[d2][source[d2][k].node].refdocname = d1

\* the directives of entry k of a document, run again on environment e
ReplayItem(e, item, k) ==
    IF item.markup # "directive" THEN e
    ELSE IF item.kind = "configfield"
    THEN StoreConfigField(e, ConfigFieldIdOfRef(item.text[1]))
    ELSE TopicRun(e, item.kind, item.text, item.content, k).env

RECURSIVE ReplayItems(_, _, _)
ReplayItems(e, items, k) ==
    IF k > Len(items) THEN e
    ELSE ReplayItems(ReplayItem(e, items[k], k), items, k + 1)

RECURSIVE ReplayDocs(_, _)
\* the environment after reading the documents in the given order
ReplayDocs(e, order) ==
    IF order = <<>> THEN e
    ELSE LET d == Head(order)
             read == ReplayItems([e EXCEPT !.docname = d], source[d], 1)
         IN ReplayDocs([PropagateRecords(read, d) EXCEPT !.docname = NoDoc],
                       Tail(order))

\* the environment the same documents give when read in alphabetical order
AlphabeticalEnv == ReplayDocs(NewEnv, <<"d1", "d2">>)

\* the kind of the placeholder at a node, "" for any other node
PendingKind(node) ==
    IF node.type = "pending_task_xref" THEN "task"
    ELSE IF node.type = "pending_config_xref" THEN "config"
    ELSE IF node.type = "pending_configfield_xref" THEN "configfield"
    ELSE ""

\* every placeholder resolves as it would had the documents been read in
\* alphabetical order
ResolvesAsInAlphabeticalOrder ==
    \A d \in Docs : \A n \in 1..Len(doctree[d]) :
        LET kind == PendingKind(doctree[d][n])
        IN kind # "" =>
            XrefContent(kind, env, doctree[d][n], d, <<d, n>>)
                = XrefContent(kind, AlphabeticalEnv, doctree[d][n], d, <<d, n>>)

StoredId(item) ==
    IF item.kind = "configfield" THEN ConfigFieldIdOfRef(item.text[1])
    ELSE get_target_id(item.kind, item.text[1])

Stores(item) == item.markup = "directive" /\ item.ok

\* no identifier is declared in two documents
NoIdInTwoDocs ==
    \A da \in Docs, db \in Docs : \A i \in Items(da), k \in Items(db) :
        (/\ da # db
         /\ Stores(source[da][i])
         /\ Stores(source[db][k])
         /\ (source[da][i].kind = "configfield") = (source[db][k].kind = "configfield"))
            => StoredId(source[da][i]) # StoredId(source[db][k])

\* a task role of x whose identifier a task-topic or configurable-topic of y
\* stored resolves to a hyperlink into y
TaskRolesLinkTo(x, y) ==
    \A n \in 1..Len(doctree[x]) : \A i \in Items(y) :
        (/\ PendingKind(doctree[x][n]) = "task"
         /\ IsStoredTopic(source[y][i])
         /\ StoredId(source[y][i]) = RoleTargetId("task", doctree[x][n].rawsource))
            => LET r == XrefContent("task", env, doctree[x][n], x, <<x, n>>)
               IN /\ r.raised = <<>>
                  /\ r.warned = <<>>
                  /\ Len(r.content) = 1
                  /\ r.content[1].type = "reference"
                  /\ r.content[1].refdocname = y

-----------------------------------------------------------------------------
(* Properties of the directives, checked under SpecTopic *)

\* a directive without argument has just run in document d
RanWithoutArgument(d) ==
    /\ Len(source'[d]) = Len(source[d]) + 1
    /\ source'[d][Len(source'[d])].markup = "directive"
    /\ source'[d][Len(source'[d])].text = <<>>

\* the name a directive of that kind is registered under
NameInMarkup(kind) ==
    IF kind = "task" THEN "lsst-task-topic"
    ELSE IF kind = "configurable" THEN "lsst-configurable-topic"
    ELSE "lsst-config-topic"

\* C9: a topic directive without class-name argument raises an error that
\* names the directive, and contributes nothing: the registry (its
\* existence and its records) and the doctree are as before.
C9_NoArgumentContributesNothing ==
    [][ \A d \in Docs :
          RanWithoutArgument(d)
            => /\ env' = env
               /\ doctree' = doctree
               /\ Len(raised') = Len(raised) + 1
               /\ raised'[Len(raised')].exc = "SphinxError"
               /\ raised'[Len(raised')].directive
                    = NameInMarkup(source'[d][Len(source'[d])].kind) ]_vars

\* a directive without argument ran after another one had stored a record
C9_Witness ==
    /\ Len(source["d1"]) = 2
    /\ IsStoredTopic(source["d1"][1])
    /\ source["d1"][2].markup = "directive"
    /\ source["d1"][2].text = <<>>
    /\ DOMAIN env.lsst_task_topics # {}
    /\ Len(raised) = 1
    /\ raised[1].exc = "SphinxError"

-----------------------------------------------------------------------------
(* Properties of the handlers, checked under SpecResolve *)

\* positions of the tree that hold a placeholder of the kind
PendingAt(tree, kind) ==
    {i \in 1..Len(tree) : tree[i].type = PendingType(kind)}

\* C11: a resolve pass of a kind replaces every placeholder of that kind
\* exactly once (one node for each, every other node untouched, at most one
\* warning for each), so that none remains; the same pass run again on the
\* resulting tree changes nothing and logs nothing.
C11_ResolvePassConsumesPlaceholders ==
    \A d \in Docs, kind \in RoleKinds :
        LET tree == doctree[d]
            r == Handler(kind, env, tree, d)
        IN /\ r.raised = <<>>
           /\ PendingAt(r.tree, kind) = {}
           /\ Len(r.tree) = Len(tree)
           /\ \A i \in 1..Len(tree) :
                IF i \in PendingAt(tree, kind)
                THEN r.tree[i].type \in {"literal", "reference"}
                ELSE r.tree[i] = tree[i]
           /\ Len(r.warned) <= Cardinality(PendingAt(tree, kind))
           /\ Handler(kind, env, r.tree, d)
                = [tree |-> r.tree, warned |-> <<>>, raised |-> <<>>]

\* the task handler has run on a tree that held two task roles: one became
\* a hyperlink, the other a literal with its warning
C11_Witness ==
    /\ Len(source["d1"]) = 2
    /\ IsRole(source["d1"][1], "task")
    /\ IsRole(source["d1"][2], "task")
    /\ PendingAt(doctree["d1"], "task") = {}
    /\ {doctree["d1"][1].type, doctree["d1"][2].type} = {"literal", "reference"}
    /\ Len(warnings) = 1

\* the text shown by the node a placeholder was replaced with
NodeLabel(node) ==
    IF node.type = "literal" THEN node.text ELSE node.children[1].text

\* the node that replaced the role of entry k of d1, once it is replaced
Replaced(k) ==
    doctree["d1"][source["d1"][k].node].type \in {"literal", "reference"}

\* the label by precedence: the display text when explicit, else the last
\* dotted component when the sigil was written, else the target
LabelByPrecedence(parts, explicit) ==
    IF explicit THEN parts.display
    ELSE IF parts.last_component THEN LastComponent(parts.ref)
    ELSE parts.ref

\* the paths C12 speaks of: both paths of the task and config handlers, the
\* found path of the config-field handler
OnDisplayTextPath(k) ==
    /\ Replaced(k)
    /\ source["d1"][k].kind = "configfield"
            => doctree["d1"][source["d1"][k].node].type = "reference"

\* C12 as stated: on those paths the label is the display text whenever the
\* parsed descriptor has one (display is not None), even next to the sigil;
\* otherwise the last dotted component of the target if last_component is
\* set; otherwise the target.
C12_DisplayTextWheneverPresent ==
    \A k \in Items("d1") :
        LET role == source["d1"][k]
            parts == RoleContentParse(role.text[1])
        IN OnDisplayTextPath(k)
            => NodeLabel(doctree["d1"][role.node])
                    = LabelByPrecedence(parts, parts.has_display)

\* C12 amended: the same with the display text taken whenever the
\* descriptor has a non-empty one; an empty display text (a label of
\* whitespace only) counts as none.
C12_DisplayTextWheneverNonEmpty ==
    \A k \in Items("d1") :
        LET role == source["d1"][k]
            parts == RoleContentParse(role.text[1])
        IN OnDisplayTextPath(k)
            => NodeLabel(doctree["d1"][role.node])
                    = LabelByPrecedence(parts, parts.has_display /\ parts.display # <<>>)

\* a config-field role with sigil and label resolved to a hyperlink that
\* shows the label, next to a task role with sigil and label that fell back
\* to a literal
C12_Witness ==
    /\ Len(source["d1"]) = 2
    /\ IsRole(source["d1"][1], "configfield")
    /\ source["d1"][1].text = <<WithSigil(WithLabel(Dotted(ClassT, FieldF)))>>
    /\ doctree["d1"][1].type = "reference"
    /\ NodeLabel(doctree["d1"][1]) = <<"L">>
    /\ IsRole(source["d1"][2], "task")
    /\ source["d1"][2].text = <<WithSigil(WithLabel(ClassT))>>
    /\ doctree["d1"][2].type = "literal"
    /\ NodeLabel(doctree["d1"][2]) = <<"L">>

\* what resolving the role of entry k of d1 on its own, in a tree that
\* holds nothing else, puts in its place
ResolvedAlone(k) ==
    LET role == source["d1"][k]
    IN Handler(role.kind, env, <<RoleRun(role.kind, role.text[1])>>, "d1").tree

\* every role replaced so far was replaced by what it resolves to alone
SubstitutedAsAlone ==
    \A k \in Items("d1") :
        Replaced(k) => <<doctree["d1"][source["d1"][k].node]>> = ResolvedAlone(k)

\* the tree the roles of d1 made at parse time
ParsedTree ==
    [k \in Items("d1") |-> RoleRun(source["d1"][k].kind, source["d1"][k].text[1])]

\* once no placeholder is left the tree is the one the three handlers give
\* in the order setup() connected them
SameAsConnectOrder ==
    (\A k \in Items("d1") : Replaced(k))
        => doctree["d1"] = EmitDoctreeResolved(env, ParsedTree, "d1").tree

\* C13: no resolve pass of any kind adds, removes or changes a registry
\* entry or creates a registry attribute, and what is substituted for a
\* placeholder does not depend on the other placeholders of the document
\* nor on the order in which the three passes run.
C13_ResolveReadsOnly ==
    /\ [][env' = env]_vars
    /\ [](SubstitutedAsAlone /\ SameAsConnectOrder)

\* with neither registry attribute, the config-field handler ran before
\* the task handler on a tree that holds a role of each
C13_Witness ==
    /\ ~env.has_task_topics
    /\ ~env.has_configfields
    /\ Len(source["d1"]) = 2
    /\ IsRole(source["d1"][1], "task")
    /\ IsRole(source["d1"][2], "configfield")
    /\ Replaced(1)
    /\ Replaced(2)
    /\ Len(warnings) = 2
    /\ warnings[1].location = <<"d1", 2>>
    /\ warnings[2].location = <<"d1", 1>>

\* the characters after the last "." of the text, the whole text if it has
\* none
RECURSIVE AfterLastDot(_)
AfterLastDot(text) ==
    IF text = <<>> THEN <<>>
    ELSE IF "." \in Range(Tail(text)) THEN AfterLastDot(Tail(text))
    ELSE IF Head(text) = "." THEN Tail(text)
    ELSE text

\* C15: a config-field role that is not found is replaced by a literal
\* whose text is the bare field name, the last dotted component of the
\* target, whatever its display text and sigil; the literal that the task and
\* config handlers fall back to shows the display text.
C15_ConfigFieldFallsBackToFieldName ==
    \A k \in Items("d1") :
        LET role == source["d1"][k]
            node == doctree["d1"][role.node]
            parts == RoleContentParse(role.text[1])
        IN node.type = "literal"
            => IF role.kind = "configfield"
               THEN node.text = AfterLastDot(parts.ref)
               ELSE node.text
                      = LabelByPrecedence(parts, parts.has_display /\ parts.display # <<>>)

\* a labelled config-field role and a labelled task role, neither found:
\* the first shows the field name, the second its label
C15_Witness ==
    /\ Len(source["d1"]) = 2
    /\ IsRole(source["d1"][1], "configfield")
    /\ source["d1"][1].text = <<WithLabel(Dotted(ClassT, FieldF))>>
    /\ doctree["d1"][1] = Literal(FieldF)
    /\ IsRole(source["d1"][2], "task")
    /\ source["d1"][2].text = <<WithLabel(ClassT)>>
    /\ doctree["d1"][2] = Literal(<<"L">>)

-----------------------------------------------------------------------------
(* Properties of the registry, checked under Spec *)

\* the topic directives that stored a record under the identifier
Declarations(id) ==
    {di \in Docs \X (1..(MaxTopics + MaxRoles)) :
        /\ di[1] \in Range(readlog)
        /\ di[2] \in Items(di[1])
        /\ IsStoredTopic(source[di[1]][di[2]])
        /\ StoredId(source[di[1]][di[2]]) = id}

\* declaration a was processed before declaration b
ProcessedBefore(a, b) ==
    \/ ReadAt(a[1]) < ReadAt(b[1])
    \/ a[1] = b[1] /\ a[2] < b[2]

\* the most recent of the declarations of the identifier
MostRecent(id) ==
    CHOOSE a \in Declarations(id) :
        \A b \in Declarations(id) \ {a} : ProcessedBefore(b, a)

\* the type a record of that kind and class is to carry
RecordType(kind, class_name) ==
    IF kind = "configurable" THEN "Configurable"
    ELSE IF kind = "config" THEN "Config"
    ELSE IF Importable[class_name].pipeline_task THEN "PipelineTask"
    ELSE "Task"

\* C14: the registry holds one record for each identifier declared and no
\* other; the record of an identifier declared more than once (in one
\* document or in two, by a task-topic and a configurable-topic alike) is
\* the one the most recent declaration wrote, and a reference to the
\* identifier resolves to the document of that declaration.
C14_LastDeclarationWins ==
    LET topics == IF env.has_task_topics THEN env.lsst_task_topics ELSE <<>>
    IN /\ \A id \in DOMAIN topics : Declarations(id) # {}
       /\ \A d \in Range(readlog) : \A i \in Items(d) :
            IsStoredTopic(source[d][i]) => StoredId(source[d][i]) \in DOMAIN topics
       /\ \A id \in DOMAIN topics :
            LET last == MostRecent(id)
                decl == source[last[1]][last[2]]
            IN /\ topics[id].docname = last[1]
               /\ topics[id].lineno = last[2]
               /\ topics[id].fully_qualified_name = decl.text[1]
               /\ topics[id].type = RecordType(decl.kind, decl.text[1])
               /\ \A d \in resolved : \A k \in Items(d) :
                    (/\ source[d][k].markup = "role"
                     /\ source[d][k].kind \in {"task", "config"}
                     /\ RoleTargetId(source[d][k].kind, source[d][k].text[1]) = id)
                        => /\ doctree[d][source[d][k].node].type = "reference"
                           /\ doctree[d][source[d][k].node].refdocname = last[1]

\* a task-topic in the document read first and a configurable-topic of the
\* same class in the one read second; a task role of the first document
\* links to the second
C14_Witness ==
    \E d1 \in Docs, d2 \in Docs :
        /\ readlog = <<d1, d2>>
        /\ d1 \in resolved
        /\ Len(source[d1]) = 2
        /\ Len(source[d2]) = 1
        /\ IsStoredTopic(source[d1][1])
        /\ source[d1][1].kind = "task"
        /\ IsStoredTopic(source[d2][1])
        /\ source[d2][1].kind = "configurable"
        /\ source[d2][1].text = source[d1][1].text
        /\ IsRole(source[d1][2], "task")
        /\ doctree[d1][2].type = "reference"
        /\ doctree[d1][2].refdocname = d2

-----------------------------------------------------------------------------
(* Properties of the records, checked under SpecTopic *)

\* the registry, empty while the attribute does not exist
Topics == IF env.has_task_topics THEN env.lsst_task_topics ELSE <<>>

\* entry i of d1 is a topic directive naming a class of the stack
NamesClass(i) ==
    /\ source["d1"][i].markup = "directive"
    /\ source["d1"][i].kind \in TopicKinds
    /\ source["d1"][i].text # <<>>
    /\ source["d1"][i].text[1] \in DOMAIN Importable

\* no entry after i declares the identifier of entry i again
LastOfItsId(i) ==
    \A k \in Items("d1") :
        (k > i /\ NamesClass(k)) => StoredId(source["d1"][k]) # StoredId(source["d1"][i])

\* C16: every topic directive that names a class stores a record and emits
\* an anchor; the type of the record is PipelineTask for a task-topic of a
\* PipelineTask subclass, Task for any other task-topic, Configurable for a
\* configurable-topic and Config for a config-topic.
C16_RecordTypeByDirective ==
    \A i \in Items("d1") :
        NamesClass(i)
            => LET decl == source["d1"][i]
                   id == StoredId(decl)
               IN /\ decl.ok
                  /\ AnchorIn("d1", decl.node, id)
                  /\ id \in DOMAIN Topics
                  /\ LastOfItsId(i)
                        => Topics[id].type = RecordType(decl.kind, decl.text[1])

\* the first paragraph of the prepared docstring lines: the lines before
\* the first blank one, joined with single spaces, without the whitespace
\* at either end
FirstParagraph(lines) == Strip(JoinLines(SummaryLines(lines)))

Undocumented == <<"U", "n", "d", "o", "c", "u", "m", "e", "n", "t", "e", "d">>

\* the summary text C17 gives a class whose directive has no body
SummaryFallback(class_name) ==
    LET lines == IF Importable[class_name].has_doc
                 THEN prepare_docstring(Importable[class_name].doc)
                 ELSE <<Undocumented>>
    IN IF FirstParagraph(lines) = <<>> THEN NoDescription ELSE FirstParagraph(lines)

\* the warnings logged for the missing docstring of the class
DocstringWarnings(class_name) ==
    {k \in 1..Len(warnings) :
        /\ warnings[k].message = "Object %s doesn't have a docstring."
        /\ warnings[k].arg = class_name}

\* C17: the record that a topic directive without body stores holds, as
\* summary, the docstring lines up to the first blank one joined with
\* single spaces; "Undocumented" stands for a missing docstring, a warning
\* is logged for it and the anchor and the record are made all the same;
\* a summary that is empty once trimmed is replaced by "No description
\* available.".
C17_SummaryFromDocstring ==
    \A i \in Items("d1") :
        (NamesClass(i) /\ source["d1"][i].content = <<>> /\ source["d1"][i].ok)
            => LET decl == source["d1"][i]
                   id == StoredId(decl)
               IN /\ AnchorIn("d1", decl.node, id)
                  /\ id \in DOMAIN Topics
                  /\ ~Importable[decl.text[1]].has_doc
                        => DocstringWarnings(decl.text[1]) # {}
                  /\ LastOfItsId(i)
                        => Topics[id].summary_node
                                = << SummaryFallback(decl.text[1]) \o <<"\n">> >>

-----------------------------------------------------------------------------
(* The bracket pattern of RoleContent.parse, checked under SpecParse *)

\* the text the pattern is tried on: the raw text without its leading "~"
Remainder == LStripChars(raw, {"~"})

\* position of the first "<" of s
FirstAngle(s) == CHOOSE i \in 1..Len(s) : s[i] = "<" /\ \A j \in 1..(i - 1) : s[j] # "<"

\* the whole of s is a non-empty label, "<", a non-empty target and ">",
\* the label ending at the first "<"
WholeIsLabelTarget(s) ==
    /\ "<" \in Range(s)
    /\ FirstAngle(s) >= 2
    /\ Len(s) >= FirstAngle(s) + 2
    /\ s[Len(s)] = ">"

\* C18: the bracket pattern is matched against the whole of the text that
\* remains after the sigil and splits it at the first "<": display is the
\* text before the first "<", ref the text between it and the closing ">"
\* (both trimmed); a text with characters after the closing ">", or not of
\* the form label<target>, has display None and its whole trimmed text as
\* ref.  (Texts without newline.)
C18_PatternAnchoredSplitsAtFirstAngle ==
    (parsed.done /\ "\n" \notin Range(raw))
        => IF WholeIsLabelTarget(Remainder)
           THEN /\ parsed.has_display
                /\ parsed.display = Strip(SubSeq(Remainder, 1, FirstAngle(Remainder) - 1))
                /\ parsed.ref = Strip(SubSeq(Remainder, FirstAngle(Remainder) + 1,
                                             Len(Remainder) - 1))
           ELSE /\ ~parsed.has_display
                /\ parsed.ref = Strip(Remainder)

-----------------------------------------------------------------------------
(* Kinds in the shared registry, checked under Spec *)

\* a directive of one of the kinds stored its record under the identifier
DeclaredBy(kinds, id) ==
    \E d \in Docs : \E i \in Items(d) :
        /\ IsStoredTopic(source[d][i])
        /\ source[d][i].kind \in kinds
        /\ StoredId(source[d][i]) = id

\* C20: in the registry shared by the three kinds of topic, a config role
\* resolves to a hyperlink only if a config-topic stored a record under its
\* identifier, never through a task-topic or a configurable-topic; a task
\* role resolves to a hyperlink only through a task-topic or a
\* configurable-topic, never to the record of a config-topic; and it resolves
\* through either of the two.
C20_KindsDoNotMix ==
    \A d \in resolved : \A k \in Items(d) :
        LET role == source[d][k]
            id == RoleTargetId(role.kind, role.text[1])
            linked == doctree[d][role.node].type = "reference"
        IN /\ (IsRole(role, "config") /\ linked) => DeclaredBy({"config"}, id)
           /\ (IsRole(role, "task") /\ linked)
                => /\ DeclaredBy({"task", "configurable"}, id)
                   /\ env.lsst_task_topics[id].type # "Config"
           /\ (IsRole(role, "task") /\ DeclaredBy({"task", "configurable"}, id))
                => linked

\* a task-topic and a configurable-topic of one class are declared; a
\* config role to that class fell back to a literal
C20_Witness ==
    \E d \in resolved : \E k \in Items(d) :
        /\ IsRole(source[d][k], "config")
        /\ source[d][k].text = <<ClassT>>
        /\ doctree[d][source[d][k].node].type = "literal"
        /\ DeclaredBy({"task"}, format_task_id(ClassT))
        /\ DeclaredBy({"configurable"}, format_task_id(ClassT))

-----------------------------------------------------------------------------
(* Properties of the parallel read, checked under SpecParallel *)

\* C19: when the documents are read by concurrent processes, then once
\* every process is merged the registry of the main environment holds the
\* record of every topic declared in any of them, and every role of a
\* resolved document to a declared topic is a hyperlink.
C19_ParallelReadKeepsRegistrations ==
    AllMerged
        => /\ \A d \in Docs : \A i \in Items(d) :
                IsStoredTopic(source[d][i]) => InTaskTopics(env, StoredId(source[d][i]))
           /\ \A d \in resolved : \A k \in Items(d) :
                (/\ IsRole(source[d][k], "task")
                 /\ DeclaredBy({"task", "configurable"},
                               RoleTargetId("task", source[d][k].text[1])))
                    => doctree[d][source[d][k].node].type = "reference"

====
